---- MODULE Spec2Model ----
(***************************************************************************)
(* XMouse_Remote (src/__init__.py): a thin client that injects synthetic   *)
(* pointer events through the XTEST fake_input primitive and reads the     *)
(* pointer back with query_pointer.                                        *)
(*                                                                         *)
(* The display server is the pair (pointer, held); it processes a request  *)
(* when the client writes it, which is what a server recording the calls   *)
(* observes.  A method is a fixed sequence of requests to the binding,     *)
(* separated by the waits of time.sleep and by round trips to the server.  *)
(* Calling a method (one action per method) lays out that sequence in      *)
(* todo; Step performs the next request of the call in flight; the client  *)
(* is single-threaded, so a call starts only when todo is empty.  An       *)
(* external actor (another client, the human at the mouse) may move the    *)
(* pointer at any time (ExternalMove): between two calls, and between two  *)
(* requests of one call, where the server is in the state the call has     *)
(* made so far (a button held during the wait of a click).                 *)
(***************************************************************************)
EXTENDS Integers, Sequences, FiniteSets

VARIABLES
    button_ids,     \* self.button_ids, the button-name table
    ctor_arg,       \* the button_ids argument the constructor was given
    pointer,        \* the server's pointer location <<x, y>>
    held,           \* the set of button IDs the server sees as held down
    last,           \* the record of the most recent call, in flight or done
    todo,           \* the requests the call in flight has still to make
    prev,           \* where the call before it put the pointer, if it did
    compound_only   \* TRUE while only click / scroll / drag_relative ran

vars == <<button_ids, ctor_arg, pointer, held, last, todo, prev, compound_only>>

----
\* Bounds of the model.
ScreenWidth  == 2       \* display.screen().width_in_pixels
ScreenHeight == 2       \* display.screen().height_in_pixels
MaxDetail    == 2       \* raw button IDs passed by callers are 1..MaxDetail
MaxTimes     == 2       \* click counts and scroll amounts are at most this
MaxDelta     == 1       \* relative offsets are -MaxDelta..MaxDelta

----
\* Python's None and optional values: None is <<>>, a value v is <<v>>.
None == <<>>

Max(a, b) == IF a >= b THEN a ELSE b
Min(a, b) == IF a <= b THEN a ELSE b
Abs(n)    == IF n < 0 THEN -n ELSE n

\* dict.get(key, default)
Get(tbl, key, default) == IF key \in DOMAIN tbl THEN tbl[key] ELSE default

\* The table of __init__, lines 72-80.
DefaultButtons ==
    [button_left |-> 1, button_middle |-> 2, button_right |-> 3,
     scroll_up |-> 4, scroll_down |-> 5, scroll_left |-> 6, scroll_right |-> 7]

\* A caller's own table: left and right swapped, no scroll_down / scroll_left.
CallerTable ==
    [button_left |-> 3, button_right |-> 1, scroll_up |-> 4, scroll_right |-> 7]

\* The values the constructor may be handed for button_ids, by Python type.
\* "OrderedDict" stands for any subclass of dict: isinstance(v, dict) holds
\* of it, type(v) is dict does not.
CtorArgs ==
    { [type |-> "NoneType",    value |-> DefaultButtons],
      [type |-> "list",        value |-> CallerTable],
      [type |-> "OrderedDict", value |-> CallerTable],
      [type |-> "dict",        value |-> CallerTable],
      [type |-> "dict",        value |-> DefaultButtons] }

\* __init__, lines 70-80: anything whose type is not exactly dict is replaced.
InitButtons(arg) ==
    IF arg.type # "dict" THEN DefaultButtons ELSE arg.value

----
\* What the binding is asked to do: the events handed to fake_input, and
\* the display.sync() barrier.
PressEvent(id)    == [type |-> "ButtonPress",   detail |-> id, x |-> 0, y |-> 0]
ReleaseEvent(id)  == [type |-> "ButtonRelease", detail |-> id, x |-> 0, y |-> 0]
MotionEvent(x, y) == [type |-> "MotionNotify",  detail |-> 0,  x |-> x, y |-> y]
SyncCall          == [type |-> "sync",          detail |-> 0,  x |-> 0, y |-> 0]

Clamp(v, lo, hi) == Max(lo, Min(v, hi))

\* self.absolute_constraints, lines 90-95: a record the object stores.  No
\* method reads it or compares a coordinate with it.
absolute_constraints ==
    [min_x |-> 0, max_x |-> ScreenWidth, min_y |-> 0, max_y |-> ScreenHeight]

\* The state a request acts on: s.pointer and s.held are the server's,
\* s.c is the record of the call in flight (its trace of requests in
\* s.c.calls, the location it read in s.c.read, what it returns in s.c.ret).

\* fake_input(display, ...): the server processes the injected event.  It
\* keeps the pointer on the screen, whose pixel columns are
\* 0 .. width_in_pixels - 1 and rows 0 .. height_in_pixels - 1.  The call
\* record notes where the pointer was when a motion arrived.
fake_input(s, ev) ==
    [pointer |-> IF ev.type = "MotionNotify"
                 THEN <<Clamp(ev.x, 0, ScreenWidth - 1), Clamp(ev.y, 0, ScreenHeight - 1)>>
                 ELSE s.pointer,
     held    |-> IF ev.type = "ButtonPress" THEN s.held \cup {ev.detail}
                 ELSE IF ev.type = "ButtonRelease" THEN s.held \ {ev.detail}
                 ELSE s.held,
     c       |-> IF ev.type = "MotionNotify"
                 THEN [s.c EXCEPT !.calls = Append(@, ev),
                                  !.moved = TRUE, !.at_move = s.pointer]
                 ELSE [s.c EXCEPT !.calls = Append(@, ev)]]

\* display.sync(): a barrier, the server has processed what was sent.
sync(s) == [s EXCEPT !.c.calls = Append(@, SyncCall)]

\* self.location, lines 106-107: [root_x, root_y] of query_pointer.
location(s) == s.pointer

----
\* The requests a method makes of the binding, in order.  Between two
\* requests the client waits (time.sleep, a round trip), and the server is
\* open to everybody else.
\*   fake_input        fake_input(display, ev), then display.sync() if sync
\*   read_location     _new_location = self.location          (line 264)
\*   move_from_read    move_absolute(*_new_location) of move_relative: the
\*                     motion, aimed from the location read
\*   return_location   return self.location
\*   raise             an exception leaves the method
Request(k, ev, x, y, do_sync) == <<k, ev, x, y, do_sync>>

\* What a request r asks for.
Kind(r)     == r[1]
EventOf(r)  == r[2]
OffsetOf(r) == <<r[3], r[4]>>
Synced(r)   == r[5]

Inject(ev, do_sync) == Request("fake_input", ev, 0, 0, do_sync)
ReadLocation        == Request("read_location", SyncCall, 0, 0, FALSE)
ReturnLocation      == Request("return_location", SyncCall, 0, 0, FALSE)
Raise               == Request("raise", SyncCall, 0, 0, FALSE)

\* The methods of XMouse_Remote, as the sequence of requests a call makes.
\* tbl is self.button_ids.

\* button_press, lines 144-151.
button_press(tbl, detail, name, do_sync) ==
    LET _target_id == IF name # None THEN Get(tbl, name[1], 1) ELSE detail
    IN  <<Inject(PressEvent(_target_id), do_sync)>>

\* button_release, lines 167-174.  _target_id is computed as in button_press
\* (lines 167-169) and never used: the event carries detail (line 171).
button_release(tbl, detail, name, do_sync) ==
    LET _target_id == IF name # None THEN Get(tbl, name[1], 1) ELSE detail
    IN  <<Inject(ReleaseEvent(detail), do_sync)>>

\* Faulty variant: the coordinates are handed over in the wrong order.
move_absolute_swapped(x, y, do_sync) ==
    <<Request("fake_input", MotionEvent(y, x), 0, 0, do_sync),
      Request("return_location", SyncCall, 0, 0, FALSE)>>

\* Faulty variant: the second press is sent before the first release.
RECURSIVE button_click_presses_ahead(_, _, _, _, _)
button_click_presses_ahead(tbl, detail, name, times, do_sync) ==
    IF times <= 0 THEN <<>>
    ELSE IF times = 1
         THEN button_press(tbl, detail, name, do_sync)
              \o button_release(tbl, detail, name, do_sync)
         ELSE button_press(tbl, detail, name, do_sync)
              \o button_press(tbl, detail, name, do_sync)
              \o button_release(tbl, detail, name, do_sync)
              \o button_release(tbl, detail, name, do_sync)
              \o button_click_presses_ahead(tbl, detail, name, times - 2, do_sync)

\* button_click, lines 122-128: for _ in range(times): press, sleep, release.
\* The sleep (delays = {0: 0.01}) is the wait between the two requests.
RECURSIVE button_click(_, _, _, _, _)
button_click(tbl, detail, name, times, do_sync) ==
    IF times <= 0 THEN <<>>
    ELSE button_press(tbl, detail, name, do_sync)
         \o button_release(tbl, detail, name, do_sync)
         \o button_click(tbl, detail, name, times - 1, do_sync)

\* move_absolute, lines 245-250.
move_absolute(x, y, do_sync) ==
    <<Inject(MotionEvent(x, y), do_sync), ReturnLocation>>

\* move_relative, lines 264-272: the location is read, the offsets are added
\* to what was read, and move_absolute is called with the result.
move_relative(x, y, do_sync) ==
    <<ReadLocation, Request("move_from_read", SyncCall, x, y, do_sync),
      ReturnLocation>>

\* drag_absolute, lines 190-202.  Line 200 reads _target_id, a name that is
\* never bound in this method: Python raises NameError there, after the
\* press and the move, and neither the release nor the return is reached.
drag_absolute(tbl, x, y, detail, name, do_sync) ==
    button_press(tbl, detail, name, do_sync)
    \o move_absolute(x, y, do_sync)
    \o <<Raise>>

\* drag_relative, lines 217-229.
drag_relative(tbl, x, y, detail, name, do_sync) ==
    button_press(tbl, detail, name, do_sync)
    \o move_relative(x, y, do_sync)
    \o button_release(tbl, detail, name, do_sync)
    \o <<ReturnLocation>>

\* scroll, lines 285-293.  button_click is called with its default sync
\* and its default delays.
scroll(tbl, x, y) ==
    (IF y > 0 THEN button_click(tbl, Get(tbl, "scroll_up", 4), None, y, TRUE)
     ELSE IF y < 0 THEN button_click(tbl, Get(tbl, "scroll_down", 5), None, Abs(y), TRUE)
     ELSE <<>>)
    \o
    (IF x > 0 THEN button_click(tbl, Get(tbl, "scroll_left", 6), None, x, TRUE)
     ELSE IF x < 0 THEN button_click(tbl, Get(tbl, "scroll_right", 7), None, Abs(x), TRUE)
     ELSE <<>>)

\* Faulty variant: the vertical offset is not added.
NewLocationDropsY(s, x, y) ==
    <<IF x # 0 THEN s.c.read[1] + x ELSE s.c.read[1], s.c.read[2]>>

\* Faulty variant: the offsets are added to the location at the time of the
\* move, as an atomic relative move would.
NewLocationAtMove(s, x, y) ==
    <<IF x # 0 THEN s.pointer[1] + x ELSE s.pointer[1],
      IF y # 0 THEN s.pointer[2] + y ELSE s.pointer[2]>>

\* _new_location of move_relative, lines 264-270.
NewLocation(s, x, y) ==
    <<IF x # 0 THEN s.c.read[1] + x ELSE s.c.read[1],
      IF y # 0 THEN s.c.read[2] + y ELSE s.c.read[2]>>

\* One request r of the call in flight, performed in state s.
Perform(s, r) ==
    CASE Kind(r) = "fake_input" ->
            IF Synced(r) THEN sync(fake_input(s, EventOf(r)))
                         ELSE fake_input(s, EventOf(r))
      [] Kind(r) = "read_location" ->
            [s EXCEPT !.c.read = location(s)]
      [] Kind(r) = "move_from_read" ->
            LET t  == NewLocation(s, OffsetOf(r)[1], OffsetOf(r)[2])
                s1 == fake_input(s, MotionEvent(t[1], t[2]))
            IN  IF Synced(r) THEN sync(s1) ELSE s1
      [] Kind(r) = "return_location" ->
            [s EXCEPT !.c.ret = location(s)]
      [] Kind(r) = "raise" ->
            [s EXCEPT !.c.ret = None, !.c.raised = "NameError"]

----
\* Inputs.
Bools      == {TRUE, FALSE}
Details    == 1..MaxDetail
NameInputs == {None, <<"button_right">>, <<"bogus">>}
Positions  == (0..(ScreenWidth - 1)) \X (0..(ScreenHeight - 1))
TargetsX   == (-1)..ScreenWidth
TargetsY   == (-1)..ScreenHeight
Deltas     == (-MaxDelta)..MaxDelta
Times      == (-1)..MaxTimes
Amounts    == (-MaxTimes)..MaxTimes
Corner     == <<ScreenWidth - 1, ScreenHeight - 1>>
Ends       == {<<0, 0>>, Corner}

\* The record of a call: what was called with what, and what came of it.
\* done: the call has returned or raised.  from: the pointer when
\* mouse.location was asked for.  moved / at_move: a motion was injected, and where the pointer
\* was then.  disturbed: somebody else moved the pointer during the call;
\* late: did so after the call's motion.
NoCall ==
    [op |-> "none", detail |-> 0, name |-> None, times |-> 0, x |-> 0, y |-> 0,
     sync |-> FALSE, done |-> TRUE, ret |-> None, raised |-> "", calls |-> <<>>,
     from |-> None, read |-> None, moved |-> FALSE, at_move |-> None,
     disturbed |-> FALSE, late |-> FALSE]

\* What the next call remembers of call c: the target of a move_absolute
\* with sync that nobody interfered with.
Summary(c) ==
    IF c.op = "move_absolute" /\ c.done /\ c.sync /\ ~c.disturbed
    THEN <<c.x, c.y>> ELSE None

\* After XMouse_Remote(button_ids = ctor_arg.value), lines 68-95.
Init ==
    /\ ctor_arg \in CtorArgs
    /\ button_ids = InitButtons(ctor_arg)
    /\ pointer \in Positions
    /\ held = {}
    /\ last = NoCall
    /\ todo = <<>>
    /\ prev = None
    /\ compound_only = TRUE

----
\* Calling a method: the client is idle, and the call's requests are laid
\* out.  A call that makes no request has returned at once.

\* mouse.location
Location ==
    /\ todo = <<>>
    /\ todo' = <<ReturnLocation>>
    /\ last' = [NoCall EXCEPT !.op = "location", !.from = pointer, !.done = FALSE]
    /\ prev' = Summary(last)
    /\ compound_only' = FALSE
    /\ UNCHANGED <<button_ids, ctor_arg, pointer, held>>

\* mouse.button_press(detail, button_name, sync)
ButtonPress(D, N, S) ==
    \E d \in D, n \in N, s \in S :
        /\ todo = <<>>
        /\ todo' = button_press(button_ids, d, n, s)
        /\ last' = [NoCall EXCEPT !.op = "button_press", !.detail = d, !.name = n,
                                  !.sync = s, !.done = FALSE]
        /\ prev' = Summary(last)
        /\ compound_only' = FALSE
        /\ UNCHANGED <<button_ids, ctor_arg, pointer, held>>

\* mouse.button_release(detail, button_name, sync)
ButtonRelease(D, N, S) ==
    \E d \in D, n \in N, s \in S :
        /\ todo = <<>>
        /\ todo' = button_release(button_ids, d, n, s)
        /\ last' = [NoCall EXCEPT !.op = "button_release", !.detail = d, !.name = n,
                                  !.sync = s, !.done = FALSE]
        /\ prev' = Summary(last)
        /\ compound_only' = FALSE
        /\ UNCHANGED <<button_ids, ctor_arg, pointer, held>>

\* mouse.button_click(detail, button_name, times, sync)
ButtonClick(D, N, T, S) ==
    \E d \in D, n \in N, t \in T, s \in S :
        \E prog \in {button_click(button_ids, d, n, t, s)} :
            /\ todo = <<>>
            /\ todo' = prog
            /\ last' = [NoCall EXCEPT !.op = "button_click", !.detail = d, !.name = n,
                                      !.times = t, !.sync = s,
                                      !.done = (prog = <<>>)]
            /\ prev' = Summary(last)
            /\ compound_only' = compound_only
            /\ UNCHANGED <<button_ids, ctor_arg, pointer, held>>

\* mouse.move_absolute(x, y, sync)
MoveAbsolute(X, Y, S) ==
    \E x \in X, y \in Y, s \in S :
        /\ todo = <<>>
        /\ todo' = move_absolute(x, y, s)
        /\ last' = [NoCall EXCEPT !.op = "move_absolute", !.x = x, !.y = y,
                                  !.sync = s, !.done = FALSE]
        /\ prev' = Summary(last)
        /\ compound_only' = FALSE
        /\ UNCHANGED <<button_ids, ctor_arg, pointer, held>>

\* mouse.move_relative(x, y, sync)
MoveRelative(DX, DY, S) ==
    \E x \in DX, y \in DY, s \in S :
        /\ todo = <<>>
        /\ todo' = move_relative(x, y, s)
        /\ last' = [NoCall EXCEPT !.op = "move_relative", !.x = x, !.y = y,
                                  !.sync = s, !.done = FALSE]
        /\ prev' = Summary(last)
        /\ compound_only' = FALSE
        /\ UNCHANGED <<button_ids, ctor_arg, pointer, held>>

\* mouse.drag_absolute(x, y, detail, button_name, sync)
DragAbsolute(X, Y, D, N, S) ==
    \E x \in X, y \in Y, d \in D, n \in N, s \in S :
        /\ todo = <<>>
        /\ todo' = drag_absolute(button_ids, x, y, d, n, s)
        /\ last' = [NoCall EXCEPT !.op = "drag_absolute", !.x = x, !.y = y,
                                  !.detail = d, !.name = n, !.sync = s,
                                  !.done = FALSE]
        /\ prev' = Summary(last)
        /\ compound_only' = FALSE
        /\ UNCHANGED <<button_ids, ctor_arg, pointer, held>>

\* mouse.drag_relative(x, y, detail, button_name, sync)
DragRelative(DX, DY, D, N, S) ==
    \E x \in DX, y \in DY, d \in D, n \in N, s \in S :
        /\ todo = <<>>
        /\ todo' = drag_relative(button_ids, x, y, d, n, s)
        /\ last' = [NoCall EXCEPT !.op = "drag_relative", !.x = x, !.y = y,
                                  !.detail = d, !.name = n, !.sync = s,
                                  !.done = FALSE]
        /\ prev' = Summary(last)
        /\ compound_only' = compound_only
        /\ UNCHANGED <<button_ids, ctor_arg, pointer, held>>

\* mouse.scroll(x, y)
Scroll(A) ==
    \E x \in A, y \in A :
        \E prog \in {scroll(button_ids, x, y)} :
            /\ todo = <<>>
            /\ todo' = prog
            /\ last' = [NoCall EXCEPT !.op = "scroll", !.x = x, !.y = y,
                                      !.done = (prog = <<>>)]
            /\ prev' = Summary(last)
            /\ compound_only' = compound_only
            /\ UNCHANGED <<button_ids, ctor_arg, pointer, held>>

\* The call in flight makes its next request.  An exception drops what was
\* still to do; the call is done when nothing is.
Step ==
    /\ todo # <<>>
    /\ \E s \in {Perform([pointer |-> pointer, held |-> held, c |-> last], Head(todo))} :
        \E rest \in {IF s.c.raised # "" THEN <<>> ELSE Tail(todo)} :
            /\ pointer' = s.pointer
            /\ held' = s.held
            /\ todo' = rest
            /\ last' = [s.c EXCEPT !.done = (rest = <<>>)]
            /\ UNCHANGED <<button_ids, ctor_arg, prev, compound_only>>

\* Another client or the user moves the pointer: between two calls, or
\* between two requests of the call in flight.
ExternalMove(P) ==
    \E p \in P :
        /\ p # pointer
        /\ pointer' = p
        /\ last' = IF todo = <<>>
                   THEN [NoCall EXCEPT !.op = "external"]
                   ELSE [last EXCEPT !.disturbed = TRUE, !.late = @ \/ last.moved]
        /\ prev' = None
        /\ UNCHANGED <<button_ids, ctor_arg, held, todo, compound_only>>

----
\* Starting points: any table the constructor accepts with the pointer at
\* the origin; the default table with the pointer anywhere or at the origin.
InitOrigin  == Init /\ pointer = <<0, 0>>
InitDefault == Init /\ ctor_arg.type = "NoneType"
InitDrag    == InitOrigin /\ ctor_arg.type = "NoneType"

\* Every operation, on a few inputs each.
Next ==
    \/ Location
    \/ ButtonPress({1}, {None}, {TRUE})
    \/ ButtonRelease({1}, {None}, {TRUE})
    \/ ButtonClick({1}, {None}, {1}, {TRUE})
    \/ MoveAbsolute({ScreenWidth - 1}, {ScreenHeight - 1}, {TRUE})
    \/ MoveRelative({-1}, {0}, {TRUE})
    \/ DragAbsolute({0}, {0}, {1}, {None}, {TRUE})
    \/ DragRelative({0}, {1}, {1}, {<<"button_right">>}, {TRUE})
    \/ Scroll({0, 1})
    \/ Step
    \/ ExternalMove(Ends)

Spec == InitOrigin /\ [][Next]_vars

\* Starting from a table of the caller's, or the default one given as a dict.
InitTables == InitOrigin /\ ctor_arg.type = "dict"

\* Press and release, over every raw ID and name.
NextPress ==
    \/ ButtonPress(Details, NameInputs, Bools)
    \/ ButtonRelease(Details, NameInputs, Bools)
    \/ Step
    \/ ExternalMove(Ends)

SpecPress == InitTables /\ [][NextPress]_vars

\* Clicks, over every raw ID, name and count.
NextClick ==
    \/ ButtonClick(Details, NameInputs, Times, Bools)
    \/ Step
    \/ ExternalMove(Ends)

SpecClick == InitTables /\ [][NextClick]_vars

\* The pointer operations.
NextPointer ==
    \/ Location
    \/ MoveAbsolute(TargetsX, TargetsY, Bools)
    \/ MoveRelative(Deltas, Deltas, Bools)
    \/ Step
    \/ ExternalMove(Positions)

SpecPointer == InitDefault /\ [][NextPointer]_vars

\* The drags.
NextDrag ==
    \/ DragAbsolute(TargetsX, TargetsY, {1}, {None, <<"button_right">>}, {TRUE})
    \/ DragRelative(Deltas, {0, 1}, Details, {None, <<"button_right">>}, {TRUE})
    \/ Step
    \/ ExternalMove(Ends)

SpecDrag == InitDrag /\ [][NextDrag]_vars

\* The compound operations that press and release.
NextCompound ==
    \/ ButtonClick(Details, NameInputs, {1, MaxTimes}, {TRUE})
    \/ DragRelative({0}, {1}, Details, NameInputs, {TRUE})
    \/ Scroll(Amounts)
    \/ Step
    \/ ExternalMove(Ends)

SpecCompound == InitDrag /\ [][NextCompound]_vars

----
\* Vocabulary of the properties.

\* The events of a trace, without the sync barriers.
Events(calls) == SelectSeq(calls, LAMBDA e : e.type # "sync")

\* The button ID a call designates: the name's entry in the table, 1 for a
\* name the table does not have, the raw ID when no name is given.
Resolved(tbl, detail, name) ==
    IF name = None THEN detail
    ELSE IF name[1] \in DOMAIN tbl THEN tbl[name[1]] ELSE 1

\* n clicks of button b: press, release, press, release, ...
Clicks(b, n) ==
    [i \in 1..(2 * n) |-> IF i % 2 = 1 THEN PressEvent(b) ELSE ReleaseEvent(b)]

\* Where a relative call aims: the location it read plus its offsets.
Aim(c) == <<c.read[1] + c.x, c.read[2] + c.y>>

\* A target the server puts the pointer on as asked: a pixel of the screen.
OnScreen(t) == t[1] \in 0..(ScreenWidth - 1) /\ t[2] \in 0..(ScreenHeight - 1)

\* C1: DragAbsolute(x, y, id) makes the server observe exactly press(id),
\* move(x, y), release(id), in that order, and returns the pointer location.
C1_DragAbsoluteSequence ==
    (last.op = "drag_absolute" /\ last.done) =>
        LET id == Resolved(button_ids, last.detail, last.name)
        IN  /\ Events(last.calls) =
                   <<PressEvent(id), MotionEvent(last.x, last.y), ReleaseEvent(id)>>
            /\ last.raised = ""
            /\ last.ret = pointer

\* C2: the event of PressButton and of ReleaseButton carries the table's ID
\* for the name given, 1 for an unknown name whatever raw ID came with it,
\* and the raw ID when no name is given.
C2_ResolutionOnEveryOperation ==
    (last.op \in {"button_press", "button_release"} /\ last.done) =>
        /\ Len(Events(last.calls)) = 1
        /\ Events(last.calls)[1].detail = Resolved(button_ids, last.detail, last.name)

\* C3: Scroll(0, dy) with dy > 0 is exactly dy clicks of the scroll_down
\* button, and Scroll(dx, 0) with dx < 0 exactly |dx| clicks of the
\* scroll_right button; no other button is clicked.
C3_ScrollDirection ==
    (last.op = "scroll" /\ last.done) =>
        /\ (last.x = 0 /\ last.y > 0) =>
               Events(last.calls) = Clicks(Get(button_ids, "scroll_down", 5), last.y)
        /\ (last.x < 0 /\ last.y = 0) =>
               Events(last.calls) = Clicks(Get(button_ids, "scroll_right", 7), -last.x)

\* C4: ClickButton(id, times = N), N >= 0, injects exactly N presses and N
\* releases of button id, press first, strictly alternating, each click
\* complete before the next starts (at every moment of the call the events
\* so far are the beginning of that alternation, whatever an external actor
\* does to the pointer in the waits); none for N = 0.
C4_ClickAlternation ==
    (last.op = "button_click" /\ last.name = None /\ last.times >= 0) =>
        LET ev == Events(last.calls)
        IN  /\ Len(ev) <= 2 * last.times
            /\ \A i \in 1..Len(ev) :
                   ev[i] = IF i % 2 = 1 THEN PressEvent(last.detail)
                                        ELSE ReleaseEvent(last.detail)
            /\ last.done =>
                   /\ Len(ev) = 2 * last.times
                   /\ Len(SelectSeq(ev, LAMBDA e : e.type = "ButtonPress")) = last.times
                   /\ Len(SelectSeq(ev, LAMBDA e : e.type = "ButtonRelease")) = last.times

C4_Witness ==
    /\ last.op = "button_click" /\ last.name = None /\ last.done
    /\ last.times = MaxTimes /\ last.detail = MaxDetail
    /\ last.disturbed
    /\ Len(Events(last.calls)) = 2 * MaxTimes

\* C5: DragRelative(dx, dy, button) makes the server observe exactly press,
\* one motion to the location read after the press plus (dx, dy), release,
\* the release carrying the button ID of the press, for a raw ID and for a
\* name.
C5_DragRelativeSequence ==
    (last.op = "drag_relative" /\ last.done) =>
        LET id == Resolved(button_ids, last.detail, last.name)
        IN  Events(last.calls) =
                <<PressEvent(id), MotionEvent(Aim(last)[1], Aim(last)[2]),
                  ReleaseEvent(id)>>

\* C6: MoveRelative(dx, dy) from location L, with nobody else moving the
\* pointer and L + (dx, dy) on the screen, returns L + (dx, dy); it injects
\* exactly one motion event, to L + (dx, dy).
C6_MoveRelativeReturns ==
    (last.op = "move_relative" /\ last.done /\ ~last.disturbed) =>
        /\ Events(last.calls) = <<MotionEvent(Aim(last)[1], Aim(last)[2])>>
        /\ OnScreen(Aim(last)) =>
               /\ last.ret = Aim(last)
               /\ pointer = Aim(last)

C6_Witness ==
    /\ last.op = "move_relative" /\ last.done /\ ~last.disturbed
    /\ last.x # 0 /\ last.y # 0
    /\ OnScreen(Aim(last))
    /\ last.ret = Aim(last)

\* C7: MoveAbsolute(x, y) with sync, (x, y) on the screen and nobody else
\* moving the pointer, returns (x, y), and so does a GetLocation() right
\* after it; GetLocation injects nothing and leaves the pointer in place.
C7_MoveThenLocation ==
    /\ (last.op = "move_absolute" /\ last.done /\ last.sync /\ ~last.disturbed
            /\ OnScreen(<<last.x, last.y>>)) =>
           last.ret = <<last.x, last.y>>
    /\ (last.op = "location" /\ last.done /\ prev # None /\ OnScreen(prev)) =>
           last.ret = prev
    /\ (last.op = "location" /\ last.done) =>
           /\ Events(last.calls) = <<>>
           /\ pointer = last.ret
           /\ ~last.disturbed => pointer = last.from

C7_Witness ==
    /\ last.op = "location" /\ last.done
    /\ prev = Corner
    /\ last.ret = Corner

\* The argument is a mapping: a dict or an instance of a subclass of dict.
IsMapping(arg) == arg.type \in {"dict", "OrderedDict"}

\* C8: the table is the 7-entry default when the constructor is given
\* something that is not a mapping (nothing, a list, ...), and exactly the
\* caller's table when it is given a mapping; no operation changes it.
C8_TableFixedAtConstruction ==
    /\ ~IsMapping(ctor_arg) =>
           button_ids = [button_left |-> 1, button_middle |-> 2, button_right |-> 3,
                         scroll_up |-> 4, scroll_down |-> 5, scroll_left |-> 6,
                         scroll_right |-> 7]
    /\ IsMapping(ctor_arg) => button_ids = ctor_arg.value

\* C9: when an external actor moves the pointer between MoveRelative's read
\* and its motion event, the motion still aims at (location read) + (dx, dy):
\* the pointer ends there (when that is a place on the screen and nobody
\* moves it again), not at (location at the move) + (dx, dy).
C9_ReadThenMoveDrifts ==
    (last.op = "move_relative" /\ last.moved /\ last.at_move # last.read) =>
        /\ Events(last.calls) = <<MotionEvent(Aim(last)[1], Aim(last)[2])>>
        /\ (last.done /\ ~last.late /\ OnScreen(Aim(last))) =>
               /\ pointer = Aim(last)
               /\ last.ret = Aim(last)
               /\ pointer # <<last.at_move[1] + last.x, last.at_move[2] + last.y>>

C9_Witness ==
    /\ last.op = "move_relative" /\ last.done
    /\ last.at_move # last.read /\ ~last.late
    /\ last.x # 0
    /\ OnScreen(<<last.at_move[1] + last.x, last.at_move[2] + last.y>>)
    /\ OnScreen(Aim(last))
    /\ pointer = Aim(last)

\* C10: after any sequence of ClickButton, Scroll and DragRelative calls
\* from a state with no button held, no button is held once the call has
\* returned.
C10_PressReleaseBalance ==
    (compound_only /\ last.done) => held = {}

====
